---- MODULE Spec2Model ----
(***************************************************************************)
(* Token issuance and verification with role-integrity protection          *)
(* (app/core/security.py), the authentication use case and the request     *)
(* dependencies that call them.                                            *)
(*                                                                         *)
(* Time is counted in clock ticks, TicksPerSecond of them to the second:   *)
(* datetime.utcnow() has sub-second resolution, the JWT NumericDate claims *)
(* and the instant python-jose compares them with are whole seconds        *)
(* (timegm(...utctimetuple())), so the truncation is part of the model.    *)
(***************************************************************************)
EXTENDS Integers, Sequences, FiniteSets, TLC

VARIABLES
    now,            \* datetime.utcnow(), in ticks
    fake_users_db,  \* security.fake_users_db: username -> record (a dict)
    repo_users,     \* dependencies.auth._user_repository._users (the singleton)
    token,          \* the token this process minted last (NoToken before)
    mintCall,       \* the create_access_token call that returned `token`
    wasValid,       \* TRUE once verify_token has accepted `token` itself
    external_data,  \* the rows of the external_data table, oldest first
    last            \* the call that has just returned: its input and outcome

vars == <<now, fake_users_db, repo_users, token, mintCall, wasValid,
          external_data, last>>

---------------------------------------------------------------------------
(* Bounds of the model *)

MaxClock == 3
TicksPerSecond == 2

(* Configuration (app/core/config.py) *)

access_token_expire_minutes == 30
secret_key == "your-secret-key-here-change-in-production"
algorithm == "HS256"

None == "None"          \* Python's None, and a key a dict does not hold

\* timegm(dt.utctimetuple()): a datetime as whole POSIX seconds
Timegm(t) == t \div TicksPerSecond

DefaultTtlTicks == access_token_expire_minutes * 60 * TicksPerSecond

---------------------------------------------------------------------------
(* Hashing primitives *)

\* hashlib.sha256(s.encode()).hexdigest(): deterministic, injective here
Sha256(s) == "sha256(" \o s \o ")"

Passwords == {"L0XuwPOdS5U", "JKSipm0YH", "invalid"}
Salts == {"salt-db", "salt-repo"}

\* pwd_context.hash(p): a salted bcrypt digest; the salt is drawn at random
BcryptHash(p, salt) == "$2b$12$" \o salt \o "$" \o p

get_password_hash(p, salt) == BcryptHash(p, salt)

\* the placeholder of authenticate_user: 43 characters, where a bcrypt
\* digest has 60 (22 of salt, 31 of checksum): not a digest of any password
dummy_hash == "$2b$12$dummy.hash.to.prevent.timing.attacks"

\* pwd_context.verify(secret, hash): passlib parses the hash, recomputes the
\* digest of `secret` under the hash's own salt and compares; a string that
\* does not parse as a bcrypt digest makes it raise ValueError.
pwd_context_verify(secret, hash) ==
    IF \E s \in Salts : hash = BcryptHash(secret, s) THEN "True"
    ELSE IF \E p \in Passwords, s \in Salts : hash = BcryptHash(p, s) THEN "False"
    ELSE "ValueError"

verify_password(plain_password, hashed_password) ==
    pwd_context_verify(plain_password, hashed_password)

---------------------------------------------------------------------------
(* Roles *)

VALID_ROLES == [r \in {"user", "admin"} |-> Sha256(r)]

\* a check that takes the tag of any valid role for the declared role
validate_role_any_known_tag(role, role_hash) ==
    \E r \in DOMAIN VALID_ROLES : VALID_ROLES[r] = role_hash

validate_role(role, role_hash) ==
    /\ role \in DOMAIN VALID_ROLES
    /\ VALID_ROLES[role] = role_hash

---------------------------------------------------------------------------
(* The credential stores *)

DbUser(username, role, password) ==
    [username |-> username, role |-> role,
     password_hash |-> BcryptHash(password, "salt-db"),
     is_active |-> TRUE, role_hash |-> Sha256(role)]

InitialFakeUsersDb ==
    [u \in {"usuario", "admin"} |->
        IF u = "usuario" THEN DbUser("usuario", "user", "L0XuwPOdS5U")
                         ELSE DbUser("admin", "admin", "JKSipm0YH")]

RepoUser(username, role, password) ==
    [username |-> username, role |-> role, is_active |-> TRUE,
     password_hash |-> get_password_hash(password, "salt-repo")]

\* FakeUserRepository.__init__
FakeUserRepositoryInit ==
    [u \in {"usuario", "admin"} |->
        IF u = "usuario" THEN RepoUser("usuario", "user", "L0XuwPOdS5U")
                         ELSE RepoUser("admin", "admin", "JKSipm0YH")]

\* dict.get(key): the entry, or None
Has(d, k) == k \in DOMAIN d

---------------------------------------------------------------------------
(* Tokens: header, claims and signature of a compact JWS *)

\* a registered claim the token does not carry is None; extra: the names of
\* the claims it carries besides the nine
Claims(sub, role, role_hash, exp, iat, nbf, jti, iss, aud) ==
    [sub |-> sub, role |-> role, role_hash |-> role_hash, exp |-> exp,
     iat |-> iat, nbf |-> nbf, jti |-> jti, iss |-> iss, aud |-> aud,
     extra |-> {}]

\* the data dict of create_access_token: None for a key it does not hold,
\* extra for the names of its keys other than sub and role
Data(sub, role, extra) == [sub |-> sub, role |-> role, extra |-> extra]

NoClaims == Claims(None, None, None, 0, 0, 0, None, None, None)

\* HMAC over header and payload: only the holder of `key` can produce it,
\* and it matches no other header or payload
Sign(key, alg, claims) == [key |-> key, alg |-> alg, claims |-> claims]

NoSig == Sign(None, None, NoClaims)

\* no token minted yet
NoToken == [alg |-> "no-token", claims |-> NoClaims, sig |-> NoSig]

\* a bearer string that is not a JWS at all ("invalid-token" in the tests)
InvalidTokenString == [alg |-> None, claims |-> NoClaims, sig |-> NoSig]

\* jwt.encode(claims, key, algorithm)
jwt_encode(claims, key, alg) ==
    [alg |-> alg, claims |-> claims, sig |-> Sign(key, alg, claims)]

JtiValues == {"jti-a", "jti-b"}

\* expires_delta: <<>> is None, <<d>> is timedelta of d ticks
NoDelta == <<>>
\* `if expires_delta:` -- None and timedelta(0) are both falsy
DeltaTruthy(expires_delta) == expires_delta # NoDelta /\ expires_delta[1] # 0

\* a mint that tags the subject instead of the role
create_access_token_role_hash_of_sub(data, expires_delta, t, jti) ==
    LET expire == IF DeltaTruthy(expires_delta) THEN t + expires_delta[1]
                  ELSE t + DefaultTtlTicks
    IN jwt_encode(
         [Claims(data.sub, data.role,
                 IF data.role # None THEN Sha256(data.sub) ELSE None,
                 Timegm(expire), Timegm(t), Timegm(t), jti,
                 "teste-tivit-api", "teste-tivit-client")
            EXCEPT !.extra = data.extra],
         secret_key, algorithm)

\* a mint that leaves the audience out of the standard claims
create_access_token_no_audience(data, expires_delta, t, jti) ==
    LET expire == IF DeltaTruthy(expires_delta) THEN t + expires_delta[1]
                  ELSE t + DefaultTtlTicks
    IN jwt_encode(
         [Claims(data.sub, data.role,
                 IF data.role # None THEN Sha256(data.role) ELSE None,
                 Timegm(expire), Timegm(t), Timegm(t), jti,
                 "teste-tivit-api", None)
            EXCEPT !.extra = data.extra],
         secret_key, algorithm)

\* create_access_token(data, expires_delta), called when the clock reads t and
\* secrets.token_urlsafe(32) returns jti: the copy of data, updated with the
\* six standard claims and, when it holds a role, with the tag of that role
create_access_token(data, expires_delta, t, jti) ==
    LET expire == IF DeltaTruthy(expires_delta) THEN t + expires_delta[1]
                  ELSE t + DefaultTtlTicks
    IN jwt_encode(
         [Claims(data.sub, data.role,
                 IF data.role # None THEN Sha256(data.role) ELSE None,
                 Timegm(expire), Timegm(t), Timegm(t), jti,
                 "teste-tivit-api", "teste-tivit-client")
            EXCEPT !.extra = data.extra],
         secret_key, algorithm)

---------------------------------------------------------------------------
(* jwt.decode(token, key, algorithms=[...], audience=..., issuer=...) *)

\* jws: the header's alg must be one of `algorithms`
AlgAllowed(tok, algorithms) == tok.alg \in algorithms

\* a MAC that does not depend on the payload
SignatureMatchesKeyOnly(tok, key) == tok.sig.key = key

\* a check that takes a signature made with any key
SignatureMatchesAnyKey(tok, key) ==
    tok.sig.alg = tok.alg /\ tok.sig.claims = tok.claims

\* jws: the signature is the MAC of this header and payload under `key`
SignatureMatches(tok, key) == tok.sig = Sign(key, tok.alg, tok.claims)

\* a decoder that does not look at nbf
NotYetValidNever(claims, t) == FALSE

\* _validate_nbf: nbf > now + leeway, leeway 0
NotYetValid(claims, t) == claims.nbf > Timegm(t)

\* _validate_exp: exp < now - leeway, leeway 0
Expired(claims, t) == claims.exp < Timegm(t)

\* _validate_aud: a token without aud passes; otherwise it must be `audience`
AudienceOk(claims, audience) == claims.aud = None \/ claims.aud = audience

\* _validate_iss: the claim must be `issuer`
IssuerOk(claims, issuer) == claims.iss = issuer

\* the JWTError jwt.decode raises, or "ok"
jwt_decode(tok, key, algorithms, audience, issuer, t) ==
    IF tok.alg = None THEN "Not enough segments"
    ELSE IF ~AlgAllowed(tok, algorithms)
        THEN "The specified alg value is not allowed"
    ELSE IF ~SignatureMatches(tok, key) THEN "Signature verification failed."
    ELSE IF NotYetValid(tok.claims, t) THEN "The token is not yet valid (nbf)"
    ELSE IF Expired(tok.claims, t) THEN "Signature has expired."
    ELSE IF ~AudienceOk(tok.claims, audience) THEN "Invalid audience"
    ELSE IF ~IssuerOk(tok.claims, issuer) THEN "Invalid issuer"
    ELSE "ok"

---------------------------------------------------------------------------
(* verify_token *)

Outcome(status, detail, payload) ==
    [status |-> status, detail |-> detail, payload |-> payload]

\* a test for None that lets the empty string through
FalsyNoneOnly(x) == x = None

\* `not x` of Python for a claim that is a string or None
Falsy(x) == x = None \/ x = ""

DetailMissingSubject == "Invalid token: missing subject"
DetailMissingRole == "Invalid token: missing role information"
DetailRoleTampering == "Invalid token: role tampering detected"
DetailUserNotFound == "User not found or inactive"
DetailJwt(e) == "Invalid token: " \o e

\* a lookup that forgets the active flag
UserNotFoundOnly(db, username) == ~Has(db, username)

\* lines 150-152: fake_users_db.get(username) is None or not is_active
UserNotFoundOrInactive(db, username) ==
    ~Has(db, username) \/ ~db[username].is_active

\* a verifier that looks the user up before it checks the role
verify_token_lookup_first(tok, t, db) ==
    LET e == jwt_decode(tok, secret_key, {algorithm},
                        "teste-tivit-client", "teste-tivit-api", t)
        payload == tok.claims
    IN  IF e # "ok" THEN Outcome(401, DetailJwt(e), NoClaims)
        ELSE IF Falsy(payload.sub)
            THEN Outcome(401, DetailMissingSubject, NoClaims)
        ELSE IF UserNotFoundOrInactive(db, payload.sub)
            THEN Outcome(401, DetailUserNotFound, NoClaims)
        ELSE IF Falsy(payload.role) \/ Falsy(payload.role_hash)
            THEN Outcome(401, DetailMissingRole, NoClaims)
        ELSE IF ~validate_role(payload.role, payload.role_hash)
            THEN Outcome(401, DetailRoleTampering, NoClaims)
        ELSE Outcome(200, "", payload)

\* verify_token(token) when the clock reads t and fake_users_db is db
verify_token(tok, t, db) ==
    LET e == jwt_decode(tok, secret_key, {algorithm},
                        "teste-tivit-client", "teste-tivit-api", t)
        payload == tok.claims
    IN  IF e # "ok" THEN Outcome(401, DetailJwt(e), NoClaims)
        ELSE IF Falsy(payload.sub)
            THEN Outcome(401, DetailMissingSubject, NoClaims)
        ELSE IF Falsy(payload.role) \/ Falsy(payload.role_hash)
            THEN Outcome(401, DetailMissingRole, NoClaims)
        ELSE IF ~validate_role(payload.role, payload.role_hash)
            THEN Outcome(401, DetailRoleTampering, NoClaims)
        ELSE IF UserNotFoundOrInactive(db, payload.sub)
            THEN Outcome(401, DetailUserNotFound, NoClaims)
        ELSE Outcome(200, "", payload)

---------------------------------------------------------------------------
(* Inputs *)

\* the data dict of create_access_token
SubInputs == {"usuario", "admin", "invalid"}
RoleInputs == {"user", "admin", "root"}
DataInputs ==
    [sub : SubInputs, role : RoleInputs, extra : {{}}]
        \cup {Data(None, "user", {}), Data("admin", None, {}),
              Data("admin", "admin", {"scope"})}
DeltaInputs == {NoDelta, <<0>>, <<1>>}

OtherRole(role) == IF role = "admin" THEN "user" ELSE "admin"
OtherSub(sub) == IF sub = "admin" THEN "usuario" ELSE "admin"

\* What a client can do to the claims of a token it holds
Edits == {"none", "role", "role+hash", "role_hash", "sub", "iss", "aud",
          "nbf", "exp"}

\* ... and what the holder of the secret key can leave out of the claims
MalformedEdits == {"empty-sub", "empty-role", "no-role_hash",
                   "empty-role_hash"}

EditClaims(c, e, t) ==
    CASE e = "none"      -> c
      [] e = "role"      -> [c EXCEPT !.role = OtherRole(c.role)]
      [] e = "role+hash" -> [c EXCEPT !.role = OtherRole(c.role),
                                      !.role_hash = Sha256(OtherRole(c.role))]
      [] e = "role_hash" -> [c EXCEPT !.role_hash = Sha256(OtherRole(c.role))]
      [] e = "sub"       -> [c EXCEPT !.sub = OtherSub(c.sub)]
      [] e = "iss"       -> [c EXCEPT !.iss = "evil-api"]
      [] e = "aud"       -> [c EXCEPT !.aud = "evil-client"]
      [] e = "nbf"       -> [c EXCEPT !.nbf = Timegm(t) + 1,
                                      !.iat = Timegm(t) + 1]
      [] e = "exp"       -> [c EXCEPT !.exp = Timegm(t) + 1]
      [] e = "empty-sub"       -> [c EXCEPT !.sub = ""]
      [] e = "empty-role"      -> [c EXCEPT !.role = ""]
      [] e = "no-role_hash"    -> [c EXCEPT !.role_hash = None]
      [] e = "empty-role_hash" -> [c EXCEPT !.role_hash = ""]

\* ... and to its signature: keep the old one, sign with a key of its own,
\* declare alg none; "secret" is a holder of the secret key signing (a peer
\* instance of the service)
Modes == {"keep", "attacker", "none", "secret"}

\* the presented variants: every edit under the old signature and under the
\* secret key, the edits of the role under a foreign key and under alg none,
\* the malformed claims under the secret key
VerifyInputs ==
    (Edits \X {"keep", "secret"})
        \cup ({"none", "role", "role+hash", "role_hash"} \X {"attacker", "none"})
        \cup (MalformedEdits \X {"secret"})

Forge(tok, e, m, t) ==
    LET c == EditClaims(tok.claims, e, t)
    IN CASE m = "keep"     -> [alg |-> tok.alg, claims |-> c, sig |-> tok.sig]
         [] m = "attacker" -> jwt_encode(c, "attacker-key", algorithm)
         [] m = "secret"   -> jwt_encode(c, secret_key, algorithm)
         [] m = "none"     -> [alg |-> "none", claims |-> c, sig |-> NoSig]

---------------------------------------------------------------------------
(* The record of the last call *)

NoUser == [username |-> None, role |-> None, is_active |-> FALSE,
           password_hash |-> None]

\* a field a request body does not hold
Missing == "missing"

\* a JSON login body; the username is a sequence of parts, each one
\* whitespace character or a run of other characters
Body(username, password) == [username |-> username, password |-> password]

\* op: the function or route called; tok: the token presented or returned;
\* status, detail: the HTTP status and detail of the outcome; kind: how the
\* call ended ("return", "None", "HTTPException", "ValueError");
\* verifications: the calls of pwd_context.verify it made; header: the
\* Authorization header of a request; ran: the route's handler body ran;
\* stored_id: the id of the external_data row the call stored, 0 for none;
\* method, endpoint, downstream, db_ok: an outbound request, what the
\* downstream service did with it and whether the commit of its row went
\* through; success, data, status_code, error: the dict the call returned
\* body: the body of a login request, as it was sent
Idle == [op |-> "idle", tok |-> NoToken, edit |-> "none", mode |-> "keep",
         status |-> 0, detail |-> "", payload |-> NoClaims, user |-> NoUser,
         username |-> None, password |-> None, kind |-> "return",
         verifications |-> 0, header |-> None, ran |-> FALSE,
         stored_id |-> 0, method |-> None, endpoint |-> None,
         downstream |-> [kind |-> None, status_code |-> 0, body |-> None],
         db_ok |-> TRUE, success |-> FALSE, data |-> None, status_code |-> 0,
         error |-> None, body |-> Body(Missing, Missing)]

NoCall == [data |-> Data(None, None, {}), after |-> Data(None, None, {}),
           expires_delta |-> NoDelta, at |-> 0]

---------------------------------------------------------------------------
(* get_current_user (app/dependencies/auth.py) *)

UserOutcome(status, detail, user) ==
    [status |-> status, detail |-> detail, user |-> user]

\* a dependency that reads the claims without verifying the token
get_current_user_unverified(tok, t, db, repo) ==
    IF Has(repo, tok.claims.sub) THEN UserOutcome(200, "", repo[tok.claims.sub])
    ELSE UserOutcome(401, "User not found", NoUser)

\* a dependency that takes the role of the user from the token's role claim
get_current_user_role_from_claims(tok, t, db, repo) ==
    LET out == verify_token(tok, t, db)
        username == out.payload.sub
    IN  IF out.status # 200 THEN UserOutcome(out.status, out.detail, NoUser)
        ELSE IF ~Has(repo, username)
            THEN UserOutcome(401, "User not found", NoUser)
        ELSE IF ~repo[username].is_active
            THEN UserOutcome(401, "User account is inactive", NoUser)
        ELSE UserOutcome(200, "",
                 [repo[username] EXCEPT !.role = out.payload.role])

\* a dependency that returns the account without looking at is_active
get_current_user_inactive_allowed(tok, t, db, repo) ==
    LET out == verify_token(tok, t, db)
        username == out.payload.sub
    IN  IF out.status # 200 THEN UserOutcome(out.status, out.detail, NoUser)
        ELSE IF ~Has(repo, username)
            THEN UserOutcome(401, "User not found", NoUser)
        ELSE UserOutcome(200, "", repo[username])

\* get_current_user(credentials) when the clock reads t
get_current_user(tok, t, db, repo) ==
    LET out == verify_token(tok, t, db)
        username == out.payload.sub
    IN  IF out.status # 200 THEN UserOutcome(out.status, out.detail, NoUser)
        ELSE IF Falsy(username)
            THEN UserOutcome(401, "Invalid token: missing username", NoUser)
        ELSE IF ~Has(repo, username)
            THEN UserOutcome(401, "User not found", NoUser)
        ELSE IF ~repo[username].is_active
            THEN UserOutcome(401, "User account is inactive", NoUser)
        ELSE UserOutcome(200, "", repo[username])

---------------------------------------------------------------------------
(* Actions *)

Init ==
    /\ now = 0
    /\ fake_users_db = InitialFakeUsersDb
    /\ repo_users = FakeUserRepositoryInit
    /\ token = NoToken
    /\ mintCall = NoCall
    /\ wasValid = FALSE
    /\ external_data = <<>>
    /\ last = Idle

\* a call is in progress only within its action: the next call, and any
\* change of the environment, starts once the last one has returned
Idling == last.op = "idle"

\* the caller has taken the result of the last call
Return ==
    /\ ~Idling
    /\ last' = Idle
    /\ UNCHANGED <<now, fake_users_db, repo_users, token, mintCall, wasValid,
                   external_data>>

\* the clock advances
Tick ==
    /\ Idling
    /\ now < MaxClock
    /\ now' = now + 1
    /\ last' = Idle
    /\ UNCHANGED <<fake_users_db, repo_users, token, mintCall, wasValid,
                   external_data>>

\* an entry of fake_users_db is deactivated
DbDeactivate(u) ==
    /\ Idling
    /\ Has(fake_users_db, u)
    /\ fake_users_db[u].is_active
    /\ fake_users_db' = [fake_users_db EXCEPT ![u].is_active = FALSE]
    /\ last' = Idle
    /\ UNCHANGED <<now, repo_users, token, mintCall, wasValid, external_data>>

\* an entry of fake_users_db is removed
DbRemove(u) ==
    /\ Idling
    /\ Has(fake_users_db, u)
    /\ fake_users_db' = [x \in DOMAIN fake_users_db \ {u} |-> fake_users_db[x]]
    /\ last' = Idle
    /\ UNCHANGED <<now, repo_users, token, mintCall, wasValid, external_data>>

\* the caller's dict once create_access_token has returned
DataAfterCallAliased(data, claims) ==
    Data(claims.sub, claims.role,
         data.extra \cup {"exp", "iat", "nbf", "jti", "iss", "aud"}
             \cup (IF claims.role_hash # None THEN {"role_hash"} ELSE {}))

\* line 86: to_encode is data.copy(), so the updates of lines 96-107 change
\* the copy and leave the caller's dict as it was
DataAfterCall(data, claims) == data

CreateAccessToken(data, expires_delta, jti) ==
    /\ Idling
    /\ token' = create_access_token(data, expires_delta, now, jti)
    /\ mintCall' = [data |-> data, after |-> DataAfterCall(data, token'.claims),
                    expires_delta |-> expires_delta, at |-> now]
    /\ wasValid' = FALSE
    /\ last' = [Idle EXCEPT !.op = "create_access_token", !.tok = token',
                            !.status = 200]
    /\ UNCHANGED <<now, fake_users_db, repo_users, external_data>>

VerifyCall(tok, e, m) ==
    LET out == verify_token(tok, now, fake_users_db)
    IN /\ Idling
       /\ last' = [Idle EXCEPT !.op = "verify_token", !.tok = tok,
                               !.edit = e, !.mode = m,
                               !.status = out.status, !.detail = out.detail,
                               !.payload = out.payload]
       /\ wasValid' = (wasValid \/ (tok = token /\ out.status = 200))
       /\ UNCHANGED <<now, fake_users_db, repo_users, token, mintCall,
                      external_data>>

\* verify_token on the minted token, as it is or as a client changed it
VerifyToken(e, m) ==
    /\ token # NoToken
    /\ VerifyCall(Forge(token, e, m, now), e, m)

\* verify_token on a string that is no token
VerifyGarbage == VerifyCall(InvalidTokenString, "none", "garbage")

RequestEdits == {"none", "role+hash", "sub"}
RequestModes == {"keep", "secret"}

\* a request to a protected route reaches get_current_user with the minted
\* token, as it is or as a client changed it
GetCurrentUser(e, m) ==
    LET tok == Forge(token, e, m, now)
        out == get_current_user(tok, now, fake_users_db, repo_users)
    IN /\ Idling
       /\ token # NoToken
       /\ last' = [Idle EXCEPT !.op = "get_current_user", !.tok = tok,
                               !.edit = e, !.mode = m,
                               !.status = out.status, !.detail = out.detail,
                               !.user = out.user]
       /\ UNCHANGED <<now, fake_users_db, repo_users, token, mintCall, wasValid,
                   external_data>>

Next ==
    \/ Return
    \/ Tick
    \/ \E u \in DOMAIN InitialFakeUsersDb : DbDeactivate(u)
    \/ \E u \in DOMAIN InitialFakeUsersDb : DbRemove(u)
    \/ \E d \in DataInputs, x \in DeltaInputs, j \in JtiValues :
          CreateAccessToken(d, x, j)
    \/ \E x \in VerifyInputs : VerifyToken(x[1], x[2])
    \/ VerifyGarbage
    \/ \E e \in RequestEdits, m \in RequestModes : GetCurrentUser(e, m)

Spec == Init /\ [][Next]_vars

---------------------------------------------------------------------------
(* Authentication: security.authenticate_user and                          *)
(* AuthenticationUseCase.authenticate                                      *)

AuthResult(kind, status, detail, user, tok, verifications) ==
    [kind |-> kind, status |-> status, detail |-> detail, user |-> user,
     tok |-> tok, verifications |-> verifications]

\* an identity built with the default role instead of the stored one
IdentityDefaultRole(user) ==
    [username |-> user.username, role |-> "user",
     is_active |-> user.is_active, password_hash |-> None]

\* the dict authenticate_user returns, and the "user" entry of the use case
Identity(user) ==
    [username |-> user.username, role |-> user.role,
     is_active |-> user.is_active, password_hash |-> None]

\* authenticate_user(username, password) over fake_users_db = db
authenticate_user(username, password, db) ==
    IF ~Has(db, username)
    THEN \* the dummy verification, then `return None`
         IF pwd_context_verify(password, dummy_hash) = "ValueError"
         THEN AuthResult("ValueError", 500, "Internal server error", NoUser,
                         NoToken, 1)
         ELSE AuthResult("None", 0, "", NoUser, NoToken, 1)
    ELSE LET user == db[username]
         IN IF ~user.is_active
            THEN AuthResult("None", 0, "", NoUser, NoToken, 0)
            ELSE IF verify_password(password, user.password_hash) # "True"
            THEN AuthResult("None", 0, "", NoUser, NoToken, 1)
            ELSE IF ~validate_role(user.role, user.role_hash)
            THEN AuthResult("HTTPException", 500,
                            "Security violation detected", NoUser, NoToken, 1)
            ELSE AuthResult("return", 0, "", Identity(user), NoToken, 1)

\* `not user.password_hash or not verify_password(...)`
PasswordRejected(password, user) ==
    user.password_hash = None
        \/ verify_password(password, user.password_hash) # "True"

PasswordVerifications(user) == IF user.password_hash = None THEN 0 ELSE 1

\* AuthenticationUseCase(repo).authenticate(username, password), when the
\* clock reads t and the token id drawn is jti
authenticate(repo, username, password, t, jti) ==
    IF ~Has(repo, username)
    THEN AuthResult("None", 0, "", NoUser, NoToken, 0)
    ELSE LET user == repo[username]
         IN IF ~user.is_active
            THEN AuthResult("None", 0, "", NoUser, NoToken, 0)
            ELSE IF PasswordRejected(password, user)
            THEN AuthResult("None", 0, "", NoUser, NoToken,
                            PasswordVerifications(user))
            ELSE AuthResult("return", 0, "", Identity(user),
                    create_access_token(
                        Data(user.username, user.role, {}), NoDelta, t, jti),
                    1)

\* the response of /auth/token and /auth/token-json to an authenticate result
login_response(r) ==
    IF r.kind = "None"
    THEN [r EXCEPT !.kind = "HTTPException", !.status = 401,
                   !.detail = "Incorrect username or password"]
    ELSE [r EXCEPT !.status = 200]

\* the response of /auth/login
login_detailed_response(r) ==
    IF r.kind = "None"
    THEN [r EXCEPT !.kind = "return", !.status = 200,
                   !.detail = "Authentication failed. Invalid credentials."]
    ELSE [r EXCEPT !.status = 200, !.detail = "Authentication successful"]

---------------------------------------------------------------------------
(* FakeUserRepository *)

\* update(user): ValueError, and no change, unless the username exists
repo_update(repo, user) ==
    IF Has(repo, user.username) THEN [repo EXCEPT ![user.username] = user]
    ELSE repo

\* delete(username)
repo_delete(repo, username) ==
    [x \in DOMAIN repo \ {username} |-> repo[x]]

\* exists(username)
exists(repo, username) == username \in DOMAIN repo

\* get_by_username(username): self._users.get(username)
get_by_username(repo, username) ==
    IF username \in DOMAIN repo THEN repo[username] ELSE NoUser

\* self._users[user.username] = user
Filed(repo, user) ==
    [x \in DOMAIN repo \cup {user.username} |->
        IF x = user.username THEN user ELSE repo[x]]

\* a create that files the user whether or not the name is taken
repo_create_overwriting(repo, user) == Filed(repo, user)

\* create(user): ValueError, and no change, when the username exists
repo_create(repo, user) ==
    IF exists(repo, user.username) THEN repo ELSE Filed(repo, user)

\* the calls of create and update that raise ValueError, and what delete
\* returns
create_raises(repo, user) == exists(repo, user.username)
update_raises(repo, user) == ~exists(repo, user.username)
delete_returns(repo, username) == username \in DOMAIN repo

RepoNames == {"usuario", "admin", "novo"}

\* the User objects a caller passes to create and update
UserInputs ==
    {[username |-> u, role |-> r, is_active |-> a, password_hash |-> h] :
        u \in RepoNames, r \in {"user", "admin"}, a \in BOOLEAN,
        h \in {None, get_password_hash("invalid", "salt-repo")}}

RepoCall(op, username, user, kind, returned, repo) ==
    /\ Idling
    /\ repo_users' = repo
    /\ last' = [Idle EXCEPT !.op = op, !.username = username, !.user = user,
                            !.kind = kind, !.success = returned]
    /\ UNCHANGED <<now, fake_users_db, token, mintCall, wasValid,
                   external_data>>

Create(user) ==
    RepoCall("create", user.username, user,
             IF create_raises(repo_users, user) THEN "ValueError" ELSE "return",
             FALSE, repo_create(repo_users, user))

Update(user) ==
    RepoCall("update", user.username, user,
             IF update_raises(repo_users, user) THEN "ValueError" ELSE "return",
             FALSE, repo_update(repo_users, user))

Delete(username) ==
    RepoCall("delete", username, NoUser, "return",
             delete_returns(repo_users, username),
             repo_delete(repo_users, username))

Exists(username) ==
    RepoCall("exists", username, NoUser, "return",
             exists(repo_users, username), repo_users)

GetByUsername(username) ==
    RepoCall("get_by_username", username,
             get_by_username(repo_users, username), "return", FALSE,
             repo_users)

RepoNext ==
    \/ Return
    \/ \E user \in UserInputs : Create(user)
    \/ \E user \in UserInputs : Update(user)
    \/ \E u \in RepoNames : Delete(u)
    \/ \E u \in RepoNames : Exists(u)
    \/ \E u \in RepoNames : GetByUsername(u)

RepoSpec == Init /\ [][RepoNext]_vars

---------------------------------------------------------------------------
(* Actions of the authentication paths *)

UsernameInputs == {"usuario", "admin", "invalid"}

LoginRoutes == {"login_for_access_token", "login_with_json", "login_detailed"}

Answer(op, username, password, r) ==
    [Idle EXCEPT !.op = op, !.username = username, !.password = password,
                 !.kind = r.kind, !.status = r.status, !.detail = r.detail,
                 !.user = r.user, !.tok = r.tok,
                 !.verifications = r.verifications]

\* a successful authentication through the use case mints a token
Minted(r, username) ==
    IF r.tok # NoToken
    THEN /\ token' = r.tok
         /\ mintCall' = [data |-> Data(r.tok.claims.sub, r.tok.claims.role, {}),
                         after |-> Data(r.tok.claims.sub, r.tok.claims.role, {}),
                         expires_delta |-> NoDelta, at |-> now]
         /\ wasValid' = FALSE
    ELSE UNCHANGED <<token, mintCall, wasValid>>

AuthenticateUser(username, password) ==
    /\ Idling
    /\ last' = Answer("authenticate_user", username, password,
                      authenticate_user(username, password, fake_users_db))
    /\ UNCHANGED <<now, fake_users_db, repo_users, token, mintCall, wasValid,
                   external_data>>

\* the use case over the repository singleton
Authenticate(username, password, jti) ==
    LET r == authenticate(repo_users, username, password, now, jti)
    IN /\ Idling
       /\ last' = Answer("authenticate", username, password, r)
       /\ Minted(r, username)
       /\ UNCHANGED <<now, fake_users_db, repo_users, external_data>>

\* the role of an entry of fake_users_db is changed, its role_hash is not
DbTamperRole(u) ==
    /\ Idling
    /\ Has(fake_users_db, u)
    /\ fake_users_db[u].role_hash = Sha256(fake_users_db[u].role)
    /\ fake_users_db' =
          [fake_users_db EXCEPT ![u].role = OtherRole(fake_users_db[u].role)]
    /\ last' = Idle
    /\ UNCHANGED <<now, repo_users, token, mintCall, wasValid, external_data>>

\* _user_repository.update(user) deactivating a user
RepoDeactivate(u) ==
    /\ Idling
    /\ Has(repo_users, u)
    /\ repo_users[u].is_active
    /\ repo_users' =
          repo_update(repo_users, [repo_users[u] EXCEPT !.is_active = FALSE])
    /\ last' = Idle
    /\ UNCHANGED <<now, fake_users_db, token, mintCall, wasValid, external_data>>

\* _user_repository.delete(username)
RepoDelete(u) ==
    /\ Idling
    /\ Has(repo_users, u)
    /\ repo_users' = repo_delete(repo_users, u)
    /\ last' = Idle
    /\ UNCHANGED <<now, fake_users_db, token, mintCall, wasValid, external_data>>

AuthNext ==
    \/ Return
    \/ \E u \in DOMAIN InitialFakeUsersDb : DbDeactivate(u)
    \/ \E u \in DOMAIN InitialFakeUsersDb : DbRemove(u)
    \/ \E u \in DOMAIN InitialFakeUsersDb : DbTamperRole(u)
    \/ \E u \in DOMAIN FakeUserRepositoryInit : RepoDeactivate(u)
    \/ \E u \in DOMAIN FakeUserRepositoryInit : RepoDelete(u)
    \/ \E u \in UsernameInputs, p \in Passwords : AuthenticateUser(u, p)
    \/ \E u \in UsernameInputs, p \in Passwords, j \in JtiValues :
          Authenticate(u, p, j)

AuthSpec == Init /\ [][AuthNext]_vars

---------------------------------------------------------------------------
(* Concurrent callers of the core.  authenticate_user, the use case,       *)
(* create_access_token and verify_token are synchronous functions without  *)
(* an await: on the event loop each call runs to its end before the next   *)
(* starts, so the calls of concurrent requests interleave call by call, in *)
(* any order, with the clock and the store changing in between.            *)

ConcNext ==
    \/ Return
    \/ Tick
    \/ \E u \in DOMAIN InitialFakeUsersDb : DbDeactivate(u)
    \/ \E d \in DataInputs, x \in DeltaInputs, j \in JtiValues :
          CreateAccessToken(d, x, j)
    \/ \E x \in VerifyInputs : VerifyToken(x[1], x[2])
    \/ \E u \in UsernameInputs, p \in Passwords : AuthenticateUser(u, p)
    \/ \E u \in UsernameInputs, p \in Passwords, j \in JtiValues :
          Authenticate(u, p, j)

ConcSpec == Init /\ [][ConcNext]_vars

---------------------------------------------------------------------------
(* The external API and the external_data table                            *)

MaxRows == 1

\* the HTTP methods a caller may name
Methods == {"GET", "get", "POST", "post", "DELETE"}

\* method.upper()
Upper(method) ==
    CASE method = "get" -> "GET"
      [] method = "post" -> "POST"
      [] OTHER -> method

ExternalEndpoints == {"health", "user", "admin", "token"}

\* what the downstream service does with a request: httpx raises
\* TimeoutException, raises another RequestError, something else is raised,
\* or a response is received with a status and a body ("json": a JSON body
\* with the JSON content type; "bad-json": that content type over a body
\* that does not decode; "text": another content type)
Raised(kind) == [kind |-> kind, status_code |-> 0, body |-> None]
Received(status_code, body) ==
    [kind |-> "response", status_code |-> status_code, body |-> body]

DownstreamOutcomes ==
    {Raised("TimeoutException"), Raised("RequestError"), Raised("Exception"),
     Received(200, "json"), Received(404, "text"), Received(503, "bad-json")}

\* the outcomes met by the requests the routes make: one of each kind the
\* use cases could tell apart
RouteOutcomes ==
    {Raised("TimeoutException"), Raised("RequestError"), Received(200, "json")}

\* lines 49-55: the parsed body
ParseBody(body) == IF body = "json" THEN "json" ELSE "{text}"

ServiceResult(success, data, status_code, error) ==
    [success |-> success, data |-> data, status_code |-> status_code,
     error |-> error]

\* a client that answers every failure as a timeout
_make_request_all_timeouts(method, endpoint, outcome) ==
    IF Upper(method) \in {"GET", "POST"} /\ outcome.kind = "response"
    THEN ServiceResult(TRUE, ParseBody(outcome.body), outcome.status_code, None)
    ELSE ServiceResult(FALSE, "{}", 408, "Request timeout")

\* ExternalApiService._make_request: the ValueError of an unsupported method
\* is raised inside the try and caught by `except Exception`
_make_request(method, endpoint, outcome) ==
    IF Upper(method) \notin {"GET", "POST"}
    THEN ServiceResult(FALSE, "{}", 500, "Unexpected error")
    ELSE CASE outcome.kind = "TimeoutException" ->
                ServiceResult(FALSE, "{}", 408, "Request timeout")
           [] outcome.kind = "RequestError" ->
                ServiceResult(FALSE, "{}", 500, "Request error")
           [] outcome.kind = "Exception" ->
                ServiceResult(FALSE, "{}", 500, "Unexpected error")
           [] OTHER ->
                ServiceResult(TRUE, ParseBody(outcome.body),
                              outcome.status_code, None)

\* get_health, get_user_data, get_admin_data
get_data(endpoint, outcome) == _make_request("GET", endpoint, outcome)

post_token_data(token_data, outcome) == _make_request("POST", "token", outcome)

\* the token_data of a login route
TokenData(username, role, tok) ==
    [username |-> username, role |-> role, token |-> tok]

NoRequest == TokenData(None, None, NoToken)

\* SqlAlchemyExternalDataRepository.save: a new row with the next id
save(table, endpoint, data, status_code) ==
    Append(table, [id |-> Len(table) + 1, endpoint |-> endpoint,
                   data |-> data, status_code |-> status_code])

\* the dict a use case returns, and the table after it
StoreResult(success, data, stored_id, status_code, error, table) ==
    [success |-> success, data |-> data, stored_id |-> stored_id,
     status_code |-> status_code, error |-> error, table |-> table]

\* fetch_and_store_user_data, _admin_data, _health_data: whatever the
\* service returned is stored, its "success" is not read; db_ok is FALSE
\* when the commit raises, which the use case catches
fetch_and_store(table, endpoint, outcome, db_ok) ==
    LET response == get_data(endpoint, outcome)
        data == [request |-> NoRequest, response |-> response.data]
    IN IF db_ok
       THEN StoreResult(TRUE, data, Len(table) + 1, response.status_code, None,
                save(table, endpoint, data, response.status_code))
       ELSE StoreResult(FALSE, None, 0, 500, "error", table)

\* send_token_data: the row holds the request, token included
send_token_data(table, token_data, outcome, db_ok) ==
    LET response == post_token_data(token_data, outcome)
        data == [request |-> token_data, response |-> response.data]
    IN IF db_ok
       THEN StoreResult(TRUE, data, Len(table) + 1, response.status_code, None,
                save(table, "token", data, response.status_code))
       ELSE StoreResult(FALSE, None, 0, 500, "error", table)

\* one call of the outbound client
MakeRequest(method, endpoint, outcome) ==
    LET r == _make_request(method, endpoint, outcome)
    IN /\ Idling
       /\ last' = [Idle EXCEPT !.op = "_make_request", !.method = method,
                               !.endpoint = endpoint, !.downstream = outcome,
                               !.kind = "return",
                               !.success = r.success, !.data = r.data,
                               !.status_code = r.status_code,
                               !.error = r.error]
       /\ UNCHANGED <<now, fake_users_db, repo_users, token, mintCall, wasValid,
                      external_data>>

Stored(op, endpoint, outcome, db_ok, res) ==
    /\ Idling
    /\ Len(res.table) <= MaxRows
    /\ last' = [Idle EXCEPT !.op = op, !.method = IF op = "send_token_data"
                                                  THEN "POST" ELSE "GET",
                            !.endpoint = endpoint, !.downstream = outcome,
                            !.db_ok = db_ok, !.kind = "return",
                            !.success = res.success, !.data = res.data,
                            !.stored_id = res.stored_id,
                            !.status_code = res.status_code,
                            !.error = res.error]
    /\ external_data' = res.table
    /\ UNCHANGED <<now, fake_users_db, repo_users, token, mintCall, wasValid>>

FetchEndpoints == {"health", "user", "admin"}

\* fetch_and_store_health_data, _user_data, _admin_data
FetchAndStore(endpoint, outcome, db_ok) ==
    Stored("fetch_and_store", endpoint, outcome, db_ok,
           fetch_and_store(external_data, endpoint, outcome, db_ok))

\* the token_data a login route builds for an account
TokenDataInputs ==
    {TokenData(u, FakeUserRepositoryInit[u].role,
               create_access_token(Data(u, FakeUserRepositoryInit[u].role, {}),
                                   NoDelta, 0, "jti-a")) :
        u \in DOMAIN FakeUserRepositoryInit}

SendTokenData(token_data, outcome, db_ok) ==
    Stored("send_token_data", "token", outcome, db_ok,
           send_token_data(external_data, token_data, outcome, db_ok))

ExternalNext ==
    \/ Return
    \/ \E m \in Methods, e \in ExternalEndpoints, o \in DownstreamOutcomes :
          MakeRequest(m, e, o)
    \/ \E e \in FetchEndpoints, o \in DownstreamOutcomes, ok \in BOOLEAN :
          FetchAndStore(e, o, ok)
    \/ \E d \in TokenDataInputs, o \in DownstreamOutcomes, ok \in BOOLEAN :
          SendTokenData(d, o, ok)

ExternalSpec == Init /\ [][ExternalNext]_vars

\* a route that answers 502 when the token data could not be sent or stored
AfterSendChecked(resp, sent) ==
    IF sent.success /\ sent.status_code < 400 THEN resp
    ELSE [resp EXCEPT !.kind = "HTTPException", !.status = 502,
                      !.detail = "Bad gateway", !.tok = NoToken]

\* lines 50, 81 and 112 of the login routes: the dict send_token_data
\* returns is dropped, the answer is built from auth_result alone
AfterSend(resp, sent) == resp

\* a login route: get_auth_use_case builds the use case over a new
\* FakeUserRepository() for every request; a success is sent to the external
\* API before the route answers
LoginHandler(route, body, username, password, jti) ==
    LET r == authenticate(FakeUserRepositoryInit, username, password, now, jti)
        resp == IF route = "login_detailed" THEN login_detailed_response(r)
                ELSE login_response(r)
    IN /\ Idling
       /\ Minted(r, username)
       /\ IF r.kind = "None"
          THEN /\ last' = [Answer(route, username, password, resp)
                             EXCEPT !.ran = TRUE, !.body = body]
               /\ UNCHANGED external_data
          ELSE \E outcome \in RouteOutcomes, db_ok \in BOOLEAN :
                 LET sent == send_token_data(external_data,
                                 TokenData(r.user.username, r.user.role, r.tok),
                                 outcome, db_ok)
                 IN /\ Len(sent.table) <= MaxRows
                    /\ last' = [Answer(route, username, password,
                                       AfterSend(resp, sent))
                                  EXCEPT !.ran = TRUE, !.body = body,
                                         !.stored_id = sent.stored_id,
                                         !.method = "POST",
                                         !.endpoint = "token",
                                         !.downstream = outcome,
                                         !.db_ok = db_ok]
                    /\ external_data' = sent.table
       /\ UNCHANGED <<now, fake_users_db, repo_users>>

\* a login whose fields arrive as the handler receives them
Login(route, username, password, jti) ==
    LoginHandler(route, Body(<<username>>, password), username, password, jti)

---------------------------------------------------------------------------
(* The request model of the JSON logins (app/schemas/auth.py)              *)

username_max_length == 50
password_max_length == 100

Whitespace == {" ", "\t"}

\* the string the parts spell
RECURSIVE Text(_)
Text(parts) == IF parts = <<>> THEN "" ELSE Head(parts) \o Text(Tail(parts))

\* str.lstrip(), str.rstrip() and str.strip() over the parts
RECURSIVE LStrip(_)
LStrip(parts) ==
    IF parts # <<>> /\ Head(parts) \in Whitespace THEN LStrip(Tail(parts))
    ELSE parts

RECURSIVE RStrip(_)
RStrip(parts) ==
    IF parts # <<>> /\ parts[Len(parts)] \in Whitespace
    THEN RStrip(SubSeq(parts, 1, Len(parts) - 1))
    ELSE parts

Strip(parts) == RStrip(LStrip(parts))

Validated(ok, value) == [ok |-> ok, value |-> value]

\* a validator that checks the stripped value and returns the raw one
validate_username_unstripped(v) ==
    IF Strip(v) = <<>> THEN Validated(FALSE, "") ELSE Validated(TRUE, Text(v))

\* UserLogin.validate_username
validate_username(v) ==
    IF Strip(v) = <<>> THEN Validated(FALSE, "")
    ELSE Validated(TRUE, Text(Strip(v)))

\* UserLogin.validate_password
validate_password(v) == IF v = "" THEN Validated(FALSE, "") ELSE Validated(TRUE, v)

\* a field of UserLogin: required, a string within the lengths of its Field,
\* and then its validator
UsernameField(v) ==
    IF v = Missing THEN Validated(FALSE, "")
    ELSE IF Len(Text(v)) < 1 \/ Len(Text(v)) > username_max_length
        THEN Validated(FALSE, "")
    ELSE validate_username(v)

PasswordField(v) ==
    IF v = Missing THEN Validated(FALSE, "")
    ELSE IF Len(v) < 1 \/ Len(v) > password_max_length
        THEN Validated(FALSE, "")
    ELSE validate_password(v)

\* UserLogin(**body): the validated model, or the 422 of FastAPI
UserLogin(body) ==
    LET u == UsernameField(body.username)
        p == PasswordField(body.password)
    IN [ok |-> u.ok /\ p.ok, username |-> u.value, password |-> p.value]

LongName == "aaaaaaaaaabbbbbbbbbbccccccccccddddddddddeeeeeeeeeef"

UsernameBodies ==
    {Missing, <<>>, <<" ", " ", " ">>, <<"\t">>, <<"admin">>,
     <<" ", "admin", " ">>, <<"usuario", "\t">>, <<" ", " ", "usuario">>,
     <<"ad", " ", "min">>, <<"invalid">>, <<LongName>>}

PasswordBodies == {Missing, "", "JKSipm0YH", "L0XuwPOdS5U", "invalid"}

JsonRoutes == {"login_with_json", "login_detailed"}

\* POST /auth/token-json and /auth/login: the body is validated before the
\* dependencies are resolved and the handler is called
LoginJson(route, body, jti) ==
    LET user_login == UserLogin(body)
    IN IF ~user_login.ok
       THEN /\ Idling
            /\ last' = [Idle EXCEPT !.op = route, !.body = body,
                                    !.kind = "RequestValidationError",
                                    !.status = 422]
            /\ UNCHANGED <<now, fake_users_db, repo_users, token, mintCall,
                           wasValid, external_data>>
       ELSE LoginHandler(route, body, user_login.username,
                         user_login.password, jti)

\* the JSON logins alone
JsonNext ==
    \/ Return
    \/ \E r \in JsonRoutes, u \in UsernameBodies, p \in PasswordBodies :
          LoginJson(r, Body(u, p), "jti-a")

JsonSpec == Init /\ [][JsonNext]_vars

---------------------------------------------------------------------------
(* The protected routes (app/routers/protected.py) and their dependencies  *)

\* User (app/domain/entities/user.py)
is_admin(user) == user.role = "admin"
is_user(user) == user.role = "user"

\* a check copied from can_access_user_resources
can_access_admin_resources_as_user(user) ==
    user.is_active /\ (is_user(user) \/ is_admin(user))

can_access_admin_resources(user) == user.is_active /\ is_admin(user)

can_access_user_resources(user) ==
    user.is_active /\ (is_user(user) \/ is_admin(user))

\* the Authorization header of a request: none at all, a value without
\* credentials ("InvalidFormat"), another scheme ("Basic ..."), a bearer token
Headers == {"none", "no-credentials", "other-scheme", "bearer"}

\* security = HTTPBearer(): 403 unless the header is `Bearer <credentials>`
HTTPBearer(header) ==
    CASE header = "bearer" -> UserOutcome(200, "", NoUser)
      [] header = "other-scheme" ->
            UserOutcome(403, "Invalid authentication credentials", NoUser)
      [] OTHER -> UserOutcome(403, "Not authenticated", NoUser)

\* require_user_role and require_admin_role, over what get_current_user gave
require_user_role(current) ==
    IF current.status # 200 THEN current
    ELSE IF ~can_access_user_resources(current.user)
        THEN UserOutcome(403,
                 "Access denied. User role required and account must be active.",
                 NoUser)
    ELSE current

require_admin_role(current) ==
    IF current.status # 200 THEN current
    ELSE IF ~can_access_admin_resources(current.user)
        THEN UserOutcome(403,
                 "Access denied. Admin role required and account must be active.",
                 NoUser)
    ELSE current

ProtectedRoutes == {"get_user_endpoint", "get_admin_endpoint",
                    "get_external_health_endpoint", "get_user_profile"}

\* the endpoint of the external API a route fetches
Endpoint(route) ==
    CASE route = "get_user_endpoint" -> "user"
      [] route = "get_admin_endpoint" -> "admin"
      [] route = "get_external_health_endpoint" -> "health"
      [] OTHER -> None

\* the dependencies of a route, in the order FastAPI resolves them
Depends(route, header, tok, t, db, repo) ==
    LET bearer == HTTPBearer(header)
        current == IF bearer.status # 200 THEN bearer
                   ELSE get_current_user(tok, t, db, repo)
    IN IF route = "get_admin_endpoint" THEN require_admin_role(current)
       ELSE require_user_role(current)

\* the tokens a request carries: the minted one, as it is or as a client
\* changed it, or a string that is no token
BearerInputs == (RequestEdits \X RequestModes) \cup {<<"none", "garbage">>}

Presented(header, e, m, t) ==
    IF header # "bearer" THEN NoToken
    ELSE IF m = "garbage" THEN InvalidTokenString
    ELSE Forge(token, e, m, t)

\* a request to a protected route: the handler body runs once every
\* dependency has returned; it fetches from the external API and stores the
\* answer (/profile does neither), and answers 200 with an ApiResponse
ProtectedRequest(route, header, e, m) ==
    LET tok == Presented(header, e, m, now)
        dep == Depends(route, header, tok, now, fake_users_db, repo_users)
        runs == dep.status = 200
        answer == [Idle EXCEPT !.op = route, !.header = header, !.tok = tok,
                               !.edit = e, !.mode = m,
                               !.status = dep.status, !.detail = dep.detail,
                               !.user = dep.user, !.ran = runs,
                               !.kind = IF runs THEN "return"
                                        ELSE "HTTPException"]
    IN /\ Idling
       /\ (header = "bearer" /\ m # "garbage") => token # NoToken
       /\ IF runs /\ Endpoint(route) # None
          THEN \E outcome \in RouteOutcomes, db_ok \in BOOLEAN :
                 LET res == fetch_and_store(external_data, Endpoint(route),
                                            outcome, db_ok)
                 IN /\ Len(res.table) <= MaxRows
                    /\ last' = [answer EXCEPT !.stored_id = res.stored_id,
                                               !.method = "GET",
                                               !.endpoint = Endpoint(route),
                                               !.downstream = outcome,
                                               !.db_ok = db_ok,
                                               !.success = res.success,
                                               !.data = res.data,
                                               !.status_code = res.status_code,
                                               !.error = res.error]
                    /\ external_data' = res.table
          ELSE /\ last' = answer
               /\ UNCHANGED external_data
       /\ UNCHANGED <<now, fake_users_db, repo_users, token, mintCall, wasValid>>

RouteNext ==
    \/ Return
    \/ \E u \in DOMAIN InitialFakeUsersDb : DbDeactivate(u)
    \/ \E u \in DOMAIN FakeUserRepositoryInit : RepoDeactivate(u)
    \/ \E r \in LoginRoutes, u \in UsernameInputs, p \in Passwords :
          Login(r, u, p, "jti-a")
    \/ \E r \in ProtectedRoutes, h \in Headers \ {"bearer"} :
          ProtectedRequest(r, h, "none", "keep")
    \/ \E r \in ProtectedRoutes, b \in BearerInputs :
          ProtectedRequest(r, "bearer", b[1], b[2])

RouteSpec == Init /\ [][RouteNext]_vars

---------------------------------------------------------------------------
(* Properties of the token codec, checked under Spec *)

Verified == last.op = "verify_token"

\* the presented token is the one create_access_token returned, unchanged
OwnToken == Verified /\ last.tok = token

\* the presented token has the MAC of the secret key over its own content
SignedBySecret(tok) ==
    tok.alg = algorithm /\ tok.sig = Sign(secret_key, algorithm, tok.claims)

ActiveInDb(u) == u \in DOMAIN fake_users_db /\ fake_users_db[u].is_active

DetailExpired == "Invalid token: Signature has expired."
DetailNotYetValid == "Invalid token: The token is not yet valid (nbf)"
DetailBadSignature == "Invalid token: Signature verification failed."
DetailBadAlg == "Invalid token: The specified alg value is not allowed"

\* C1: round trip. verify_token, given the token create_access_token made of
\* {sub: username, role: role}, with username present and active in
\* fake_users_db, role one of user and admin, at an instant whose second is
\* not after exp, succeeds and returns a payload with that sub and that role.
C1_RoundTrip ==
    ( /\ OwnToken
      /\ ActiveInDb(mintCall.data.sub)
      /\ mintCall.data.role \in {"user", "admin"}
      /\ Timegm(now) <= token.claims.exp )
    => ( /\ last.status = 200
         /\ last.payload.sub = mintCall.data.sub
         /\ last.payload.role = mintCall.data.role )

\* a token accepted in the very second of its exp, after the clock has moved
C1_Witness ==
    /\ OwnToken
    /\ last.status = 200
    /\ now > mintCall.at
    /\ Timegm(now) = token.claims.exp
    /\ last.payload.sub = "usuario"

\* C2: time window. For a token minted by the service (its own or a peer
\* instance's) verified in second t: rejected with 401 whenever t > exp or
\* t < nbf, and not rejected for a time reason when nbf <= t <= exp.
C2_TimeWindow ==
    (Verified /\ SignedBySecret(last.tok)) =>
        LET t == Timegm(now)
            c == last.tok.claims
        IN /\ (t > c.exp \/ t < c.nbf) => last.status = 401
           /\ (c.nbf <= t /\ t <= c.exp) =>
                 last.detail \notin {DetailExpired, DetailNotYetValid}

\* the minted token, accepted before, is refused once its exp has passed
C2_Witness ==
    /\ OwnToken
    /\ wasValid
    /\ Timegm(now) > token.claims.exp
    /\ last.status = 401
    /\ last.detail = DetailExpired

\* a peer's token whose nbf is still ahead is refused
C2_WitnessNbf ==
    /\ Verified
    /\ SignedBySecret(last.tok)
    /\ Timegm(now) < last.tok.claims.nbf
    /\ last.detail = DetailNotYetValid

\* C3: a token minted with expires_delta = timedelta(0) for an existing,
\* active user is rejected as expired when verified a second or more later.
C3_TtlZeroExpired ==
    ( /\ OwnToken
      /\ mintCall.expires_delta = <<0>>
      /\ ActiveInDb(mintCall.data.sub)
      /\ mintCall.data.role \in {"user", "admin"}
      /\ now >= mintCall.at + TicksPerSecond )
    => (last.status = 401 /\ last.detail = DetailExpired)

\* C4: tampering without the key. A token obtained from the minted one by
\* changing role, or role and role_hash together, and not signed again with
\* the secret key, is rejected with 401 and yields no payload.
C4_TamperingCaught ==
    ( /\ Verified
      /\ last.edit \in {"role", "role+hash"}
      /\ last.mode \in {"keep", "attacker", "none"} )
    => (last.status = 401 /\ last.payload = NoClaims)

\* user -> admin with a matching role_hash, under the old signature, on a
\* token that was accepted before the change
C4_Witness ==
    /\ Verified
    /\ wasValid
    /\ token.claims.role = "user"
    /\ last.edit = "role+hash"
    /\ last.mode = "keep"
    /\ last.tok.claims.role = "admin"
    /\ last.tok.claims.role_hash = Sha256("admin")
    /\ last.status = 401

\* the presented token is not signed with the secret key
Forged ==
    /\ Verified
    /\ \/ last.mode \in {"attacker", "none"}
       \/ last.mode = "keep" /\ last.tok # token

\* C5 as stated: a forged token, not signed with the secret key, whose
\* role_hash is not the tag of its role fails with the role-tampering detail.
C5_ForgedRoleTampering ==
    ( /\ Forged
      /\ last.tok.claims.role_hash # Sha256(last.tok.claims.role) )
    => (last.status = 401 /\ last.detail = DetailRoleTampering)

\* C5, amended: such a token fails at decoding, with the signature (or
\* algorithm) failure of jwt.decode, before the role check is reached.
C5_ForgedFailsDecoding ==
    ( /\ Forged
      /\ last.tok.claims.role_hash # Sha256(last.tok.claims.role) )
    => ( /\ last.status = 401
         /\ last.detail \in {DetailBadSignature, DetailBadAlg} )

C5_Witness ==
    /\ Forged
    /\ last.mode = "attacker"
    /\ last.edit = "role_hash"
    /\ last.tok.claims.role_hash # Sha256(last.tok.claims.role)
    /\ last.detail = DetailBadSignature

\* the role named by the claims is a valid role carrying its own tag
RoleIntact(c) == c.role \in {"user", "admin"} /\ c.role_hash = Sha256(c.role)

AllPresent(c) == ~Falsy(c.sub) /\ ~Falsy(c.role) /\ ~Falsy(c.role_hash)

Revoked == wasValid /\ ~ActiveInDb(token.claims.sub)

\* C7 as stated: once the user of a previously valid token is deactivated or
\* removed, every later verification fails with 'User not found or
\* inactive', and a protected request carrying the token is refused.
C7_DeactivatedUserNotFound ==
    /\ (OwnToken /\ Revoked) =>
          (last.status = 401 /\ last.detail = DetailUserNotFound)
    /\ (last.op = "get_current_user" /\ last.tok = token /\ Revoked) =>
          last.status = 401

\* C7, amended: every later verification fails with 401; the failure is
\* 'User not found or inactive' while the token is within its time window
\* and the expiry failure of decoding once exp has passed.
C7_DeactivatedRejected ==
    /\ (OwnToken /\ Revoked) =>
          /\ last.status = 401
          /\ last.detail = IF Timegm(now) > token.claims.exp
                              THEN DetailExpired ELSE DetailUserNotFound
    /\ (last.op = "get_current_user" /\ last.tok = token /\ Revoked) =>
          last.status = 401

C7_Witness ==
    /\ OwnToken
    /\ Revoked
    /\ token.claims.sub \in DOMAIN fake_users_db
    /\ last.detail = DetailUserNotFound

\* the protected request that carries the revoked token
C7_WitnessRequest ==
    /\ last.op = "get_current_user"
    /\ last.tok = token
    /\ Revoked
    /\ last.status = 401

---------------------------------------------------------------------------
(* Properties of authentication, checked under AuthSpec *)

\* the store a call consults: fake_users_db for authenticate_user, the
\* repository singleton for the use case, a new repository for a login route
Consulted ==
    IF last.op = "authenticate_user" THEN fake_users_db
    ELSE IF last.op = "authenticate" THEN repo_users
    ELSE FakeUserRepositoryInit

AuthCall == last.op \in {"authenticate_user", "authenticate"} \cup LoginRoutes

\* the password is the one whose salted digest the store holds
Matches(password, hash) == \E s \in Salts : hash = BcryptHash(password, s)

ValidCredentials ==
    /\ AuthCall
    /\ last.username \in DOMAIN Consulted
    /\ Consulted[last.username].is_active
    /\ Matches(last.password, Consulted[last.username].password_hash)

\* the outcome is a success carrying the stored username and role, and on
\* the paths that mint, a token for that username with that role
Authenticated ==
    /\ last.kind = "return"
    /\ last.user.username = Consulted[last.username].username
    /\ last.user.role = Consulted[last.username].role
    /\ last.op # "authenticate_user" =>
          /\ last.tok.claims.sub = Consulted[last.username].username
          /\ last.tok.claims.role = Consulted[last.username].role
    /\ last.op \in LoginRoutes => last.status = 200

\* C8 as stated: for every (username, password) with the username in the
\* store, active, and the password matching the stored hash, authenticate
\* succeeds with the stored username and role (and a login returns a token
\* whose role claim is the stored role).
C8_ValidCredentialsSucceed == ValidCredentials => Authenticated

\* C8, amended: the same, provided the role_hash stored with the user is the
\* tag of the stored role (authenticate_user answers a stored role without
\* its tag with the 500 'Security violation detected').
C8_ValidCredentialsIntact ==
    ( /\ ValidCredentials
      /\ last.op = "authenticate_user" =>
            Consulted[last.username].role_hash
                = Sha256(Consulted[last.username].role) )
    => Authenticated

\* the admin authenticates through the use case and gets a token with the
\* admin role
C8_Witness ==
    /\ last.op = "authenticate"
    /\ last.username = "admin"
    /\ last.password = "JKSipm0YH"
    /\ last.kind = "return"
    /\ last.tok.claims.role = "admin"
    /\ last.user.role = "admin"

C8_WitnessAuthenticateUser ==
    /\ last.op = "authenticate_user"
    /\ last.username = "admin"
    /\ last.kind = "return"
    /\ last.user.role = "admin"

\* absent username, wrong password or inactive account
BadCredentials ==
    /\ AuthCall
    /\ \/ last.username \notin DOMAIN Consulted
       \/ ~Consulted[last.username].is_active
       \/ ~Matches(last.password, Consulted[last.username].password_hash)

\* C9: authenticate called with an absent username, with a wrong password
\* or for an inactive account gives the same InvalidCredentials result (None,
\* no token), and the login response is the same in the three cases.
C9_BadCredentialsAlike ==
    BadCredentials =>
        /\ last.tok = NoToken
        /\ last.user = NoUser
        /\ last.op \in {"authenticate_user", "authenticate"} =>
              last.kind = "None"
        /\ last.op \in {"login_for_access_token", "login_with_json"} =>
              (last.status = 401
                  /\ last.detail = "Incorrect username or password")
        /\ last.op = "login_detailed" =>
              (last.status = 200
                  /\ last.detail = "Authentication failed. Invalid credentials.")

\* C10: authenticate called with a username absent from the store performs
\* exactly one password verification (against the placeholder hash) and then
\* reports InvalidCredentials, as many verifications as a wrong password costs.
C10_AbsentUserOneVerification ==
    ( /\ last.op \in {"authenticate_user", "authenticate"}
      /\ last.username \notin DOMAIN Consulted )
    => (last.verifications = 1 /\ last.kind = "None")

---------------------------------------------------------------------------
(* Properties of the wire format and of malformed tokens, checked under    *)
(* Spec                                                                    *)

RegisteredNames ==
    {"sub", "role", "role_hash", "exp", "iat", "nbf", "jti", "iss", "aud"}

\* the names of the claims a token carries
ClaimNames(c) ==
    {"exp", "iat", "nbf"}
        \cup {n \in {"sub", "role", "role_hash", "jti", "iss", "aud"} :
                 c[n] # None}
        \cup c.extra

WireFormat(c) ==
    /\ ClaimNames(c) = RegisteredNames
    /\ c.iss = "teste-tivit-api"
    /\ c.aud = "teste-tivit-client"

Created == last.op = "create_access_token"

\* C13 as stated: every token create_access_token produces, for every input
\* dict, carries exactly the claims sub, role, role_hash, exp, iat, nbf, jti,
\* iss and aud, with iss = 'teste-tivit-api' and aud = 'teste-tivit-client'.
C13_WireFormatAnyInput == Created => WireFormat(last.tok.claims)

\* C13, amended: the same for every input dict whose keys are exactly sub and
\* role (what the use case passes); a key the dict lacks is lacking in the
\* token, with role_hash when it is role, and any other key is carried over.
C13_WireFormat ==
    ( /\ Created
      /\ mintCall.data.sub # None
      /\ mintCall.data.role # None
      /\ mintCall.data.extra = {} )
    => WireFormat(last.tok.claims)

C13_Witness ==
    /\ Created
    /\ mintCall.data = Data("usuario", "user", {})
    /\ mintCall.expires_delta = <<1>>
    /\ WireFormat(last.tok.claims)
    /\ last.tok.claims.role_hash = Sha256("user")

\* the presented token is signed with the secret key, not past its exp and
\* carries the expected issuer and audience
SignedUnexpired ==
    /\ Verified
    /\ SignedBySecret(last.tok)
    /\ Timegm(now) <= last.tok.claims.exp
    /\ last.tok.claims.iss = "teste-tivit-api"
    /\ last.tok.claims.aud = "teste-tivit-client"

\* the claim is not in the token, or is the empty string
MissingOrEmpty(x) == x \in {None, ""}

\* C18: malformed token. A correctly signed, unexpired token with the right
\* issuer and audience whose sub is missing or empty, or whose role or
\* role_hash is missing or empty, is rejected with 401 whatever the store
\* holds; once its nbf has come, the detail is 'missing subject' in the first
\* case and 'missing role information' in the second.
C18_MalformedRejected ==
    LET c == last.tok.claims
    IN ( /\ SignedUnexpired
         /\ \E n \in {"sub", "role", "role_hash"} : MissingOrEmpty(c[n]) )
       => /\ last.status = 401
          /\ last.payload = NoClaims
          /\ c.nbf <= Timegm(now) =>
                last.detail = IF MissingOrEmpty(c.sub)
                              THEN DetailMissingSubject
                              ELSE DetailMissingRole

\* an active user's token with an empty subject
C18_Witness ==
    /\ SignedUnexpired
    /\ last.edit = "empty-sub"
    /\ ActiveInDb(token.claims.sub)
    /\ last.tok.claims.sub = ""
    /\ last.detail = DetailMissingSubject

\* a token minted without a role carries no role_hash either
C18_WitnessNoRole ==
    /\ SignedUnexpired
    /\ OwnToken
    /\ ActiveInDb(token.claims.sub)
    /\ token.claims.role = None
    /\ last.detail = DetailMissingRole

\* the tag alone is missing
C18_WitnessNoRoleHash ==
    /\ SignedUnexpired
    /\ last.edit = "no-role_hash"
    /\ last.tok.claims.role = "admin"
    /\ last.detail = DetailMissingRole

---------------------------------------------------------------------------
(* Store integrity, checked under AuthSpec *)

\* the entry of fake_users_db, the store that keeps a tag with each role, is
\* active, has this password, and its role_hash is not the tag of its role
TamperedEntry(username, password) ==
    /\ username \in DOMAIN fake_users_db
    /\ fake_users_db[username].is_active
    /\ Matches(password, fake_users_db[username].password_hash)
    /\ fake_users_db[username].role_hash
          # Sha256(fake_users_db[username].role)

\* C11: store integrity violation. Whenever authenticate is called with the
\* correct password of an active user whose stored role tag is not the tag of
\* the stored role, the outcome is the integrity failure (HTTP 500), never a
\* success (identity or token) and never the InvalidCredentials result.
C11_IntegrityViolationSurfaced ==
    ( /\ last.op \in {"authenticate_user", "authenticate"}
      /\ TamperedEntry(last.username, last.password) )
    => ( /\ last.kind = "HTTPException"
         /\ last.status = 500
         /\ last.tok = NoToken
         /\ last.user = NoUser )

---------------------------------------------------------------------------
(* Properties of the routes, checked under RouteSpec *)

Requested == last.op \in ProtectedRoutes

\* the request carries a token that get_current_user accepts: it passes
\* verify_token and its subject is an active account of the repository
ValidToken ==
    /\ Requested
    /\ last.header = "bearer"
    /\ verify_token(last.tok, now, fake_users_db).status = 200
    /\ last.tok.claims.sub \in DOMAIN repo_users
    /\ repo_users[last.tok.claims.sub].is_active

\* the account the token names
Account == repo_users[last.tok.claims.sub]

\* C14: admin-only access. A request to /admin is served (200) only when the
\* verified token's user is active and has the admin role; a request that
\* carries a valid token of a user-role account is refused with 403, and the
\* admin handler does not run (no fetch, no row stored).
C14_AdminOnly ==
    last.op = "get_admin_endpoint" =>
        /\ last.status = 200 => (ValidToken /\ Account.role = "admin")
        /\ (ValidToken /\ Account.role = "user") =>
              (last.status = 403 /\ ~last.ran /\ last.stored_id = 0)

\* the token of usuario, re-signed with the secret key to say admin, is
\* still refused: the role is the account's, not the token's
C14_Witness ==
    /\ last.op = "get_admin_endpoint"
    /\ ValidToken
    /\ Account.role = "user"
    /\ last.tok.claims.role = "admin"
    /\ last.status = 403

C14_WitnessServed ==
    /\ last.op = "get_admin_endpoint"
    /\ last.status = 200
    /\ last.ran
    /\ last.stored_id = 1
    /\ Account.username = "admin"

\* C15: the /user endpoint is accessible only by users with the 'user' role:
\* a request carrying a valid token of an account whose role is not 'user'
\* (an admin) is refused.
C15_UserRoleOnly ==
    ( /\ last.op = "get_user_endpoint"
      /\ ValidToken
      /\ Account.role # "user" )
    => (last.status = 403 /\ ~last.ran)

\* the authentication of a login request failed: absent user or wrong
\* password (the repository of a login route is new, its users are active)
LoginFailed == last.op \in LoginRoutes /\ BadCredentials

\* C16: whenever authentication fails, every login route (/auth/token,
\* /auth/token-json and /auth/login) answers 401 and issues no token.
C16_LoginFailure401 ==
    LoginFailed => (last.status = 401 /\ last.tok = NoToken)

\* C17: statelessness. In every reachable state no row of the external_data
\* table holds a token the service issued.
C17_NoTokenStored ==
    \A i \in 1..Len(external_data) :
        external_data[i].data.request.token = NoToken

\* the role check of the route, on the account of the presented token
RoleCheckPasses ==
    IF last.op = "get_admin_endpoint" THEN Account.role = "admin"
    ELSE Account.role \in {"user", "admin"}

\* C20: the handler of a protected route runs, fetches and stores only for a
\* request whose bearer token passes verify_token and whose user passes the
\* route's role check; a request with no or a malformed Authorization header
\* is answered 403, one whose token fails verification 401, and in both
\* cases the handler does not run and no row is stored.
C20_HandlerGuarded ==
    [][ (last'.op \in ProtectedRoutes) =>
          LET passes == /\ last'.header = "bearer"
                        /\ verify_token(last'.tok, now, fake_users_db).status
                              = 200
              refused == ~last'.ran /\ external_data' = external_data
          IN /\ last'.ran => (passes /\ ValidToken' /\ RoleCheckPasses')
             /\ external_data' # external_data => last'.ran
             /\ last'.header # "bearer" => (last'.status = 403 /\ refused)
             /\ (last'.header = "bearer" /\ ~passes) =>
                   (last'.status = 401 /\ refused)
      ]_vars

\* a changed token is answered 401 while the table holds the row of a login
C20_Witness ==
    /\ Requested
    /\ last.header = "bearer"
    /\ last.edit = "role+hash"
    /\ last.mode = "keep"
    /\ last.status = 401
    /\ ~last.ran
    /\ Len(external_data) = 1

C20_WitnessNoHeader ==
    /\ last.op = "get_user_endpoint"
    /\ last.header = "none"
    /\ last.status = 403
    /\ token # NoToken

C20_WitnessServed ==
    /\ last.op = "get_user_endpoint"
    /\ last.ran
    /\ last.stored_id = 1
    /\ external_data[1].endpoint = "user"

---------------------------------------------------------------------------
(* Independence of the calls, checked under ConcSpec *)

CoreCalls ==
    {"authenticate_user", "authenticate", "create_access_token",
     "verify_token"}

\* the outcome of the call that has just returned, as the function called
\* alone gives it for the same arguments, store, clock and drawn token id
AloneResult(call, t, db, repo, minted) ==
    CASE call.op = "verify_token" ->
            LET out == verify_token(call.tok, t, db)
            IN /\ call.status = out.status
               /\ call.detail = out.detail
               /\ call.payload = out.payload
      [] call.op = "create_access_token" ->
            call.tok = create_access_token(minted.data, minted.expires_delta,
                                           t, call.tok.claims.jti)
      [] call.op = "authenticate_user" ->
            call = Answer("authenticate_user", call.username, call.password,
                          authenticate_user(call.username, call.password, db))
      [] call.op = "authenticate" ->
            call = Answer("authenticate", call.username, call.password,
                          authenticate(repo, call.username, call.password, t,
                                       call.tok.claims.jti))

C19_WitnessVerify ==
    /\ last.op = "verify_token"
    /\ wasValid
    /\ last.status = 401
    /\ last.detail = DetailUserNotFound

---------------------------------------------------------------------------
(* Properties of the outbound client and the use cases over it, checked    *)
(* under ExternalSpec and RouteSpec                                        *)

RequestMade == last.op = "_make_request"

SupportedMethod == last.method \in {"GET", "get", "POST", "post"}

\* C29: _make_request always returns a dict with success, status_code and
\* data: success = False with 408 for a timeout, success = False with 500
\* for any other request error, unexpected error or unsupported method, and
\* success = True with the response's own status for every response received.
C29_ClientNeverRaises ==
    RequestMade =>
        /\ last.kind = "return"
        /\ last.success \in BOOLEAN
        /\ last.status_code \in 100..599
        /\ last.data # None
        /\ ~SupportedMethod => (~last.success /\ last.status_code = 500)
        /\ (SupportedMethod /\ last.downstream.kind = "TimeoutException")
              => (~last.success /\ last.status_code = 408)
        /\ (SupportedMethod
              /\ last.downstream.kind \in {"RequestError", "Exception"})
              => (~last.success /\ last.status_code = 500)
        /\ (SupportedMethod /\ last.downstream.kind = "response")
              => (last.success
                    /\ last.status_code = last.downstream.status_code)

C29_Witness ==
    RequestMade /\ last.method = "DELETE" /\ last.status_code = 500

C29_WitnessTimeout ==
    RequestMade /\ SupportedMethod /\ last.status_code = 408

C29_WitnessErrorStatus ==
    RequestMade /\ last.success /\ last.status_code = 503

\* C28: fetch_and_store_user_data, _admin_data and _health_data answer
\* success = False with the error, and store no row, when the outbound
\* request timed out or failed.
C28_FailureNotStoredAsSuccess ==
    (last.op = "fetch_and_store" /\ last.downstream.kind # "response") =>
        /\ ~last.success
        /\ last.error # None
        /\ last.stored_id = 0

KnownCredentials == {<<"usuario", "L0XuwPOdS5U">>, <<"admin", "JKSipm0YH">>}

LoginWithKnownCredentials ==
    last.op \in LoginRoutes /\ <<last.username, last.password>> \in KnownCredentials

\* C27: with valid credentials every login route answers 200 with the access
\* token, whether the post of the token data succeeded, timed out, failed,
\* or the save of its response raised.
C27_LoginIndependentOfDownstream ==
    LoginWithKnownCredentials =>
        /\ last.status = 200
        /\ last.kind = "return"
        /\ last.tok # NoToken
        /\ last.tok.claims.sub = last.username

C27_Witness ==
    LoginWithKnownCredentials /\ last.downstream.kind = "TimeoutException"
        /\ last.status = 200 /\ last.tok # NoToken

C27_WitnessSaveRaises ==
    LoginWithKnownCredentials /\ ~last.db_ok /\ last.stored_id = 0
        /\ last.status = 200 /\ last.tok # NoToken

C27_WitnessRequestError ==
    LoginWithKnownCredentials /\ last.downstream.kind = "RequestError"
        /\ last.db_ok /\ last.status = 200

---------------------------------------------------------------------------
(* Properties of the request validation, checked under JsonSpec *)

JsonLogin == last.op \in JsonRoutes /\ last.body.username # Missing

Blank(parts) == \A i \in 1..Len(parts) : parts[i] \in {" ", "\t"}

Rejected422 ==
    /\ last.status = 422
    /\ ~last.ran
    /\ last.verifications = 0
    /\ last.tok = NoToken
    /\ last.stored_id = 0

\* the parts of raw between its surrounding whitespace spell name
StrippedOf(raw, name) ==
    \E i \in 1..Len(raw), j \in 1..Len(raw) :
        /\ i <= j
        /\ Blank(SubSeq(raw, 1, i - 1))
        /\ Blank(SubSeq(raw, j + 1, Len(raw)))
        /\ raw[i] \notin {" ", "\t"}
        /\ raw[j] \notin {" ", "\t"}
        /\ name = Text(SubSeq(raw, i, j))

\* C21: a JSON login without a username or a password, with an empty or
\* whitespace-only username or with an empty password is answered 422 before
\* any lookup, password verification or minting; the username of an accepted
\* body reaches authenticate without its surrounding whitespace.
C21_ValidationFirst ==
    /\ (last.op \in JsonRoutes
          /\ (last.body.username = Missing \/ last.body.password = Missing))
          => Rejected422
    /\ (JsonLogin /\ Blank(last.body.username)) => Rejected422
    /\ (last.op \in JsonRoutes /\ last.body.password = "") => Rejected422
    /\ (JsonLogin /\ last.status # 422)
          => StrippedOf(last.body.username, last.username)

C21_Witness ==
    JsonLogin /\ last.body.username = <<" ", "admin", " ">>
        /\ last.username = "admin" /\ last.status = 200 /\ last.tok # NoToken

C21_WitnessWhitespace ==
    JsonLogin /\ last.body.username = <<" ", " ", " ">>
        /\ last.body.password = "invalid" /\ last.status = 422

C21_WitnessMissing ==
    last.op = "login_with_json" /\ last.body = Body(Missing, Missing)
        /\ last.status = 422

---------------------------------------------------------------------------
(* Properties of the timestamps of a minted token, checked under Spec *)

\* the time-to-live the caller asked for, in ticks
TtlPassed ==
    IF mintCall.expires_delta = NoDelta THEN DefaultTtlTicks
    ELSE mintCall.expires_delta[1]

\* C22: whatever expires_delta the caller passes, and with the configured
\* default when none is passed, the minted token has iat at the mint instant,
\* nbf equal to iat, and exp at the mint instant plus that time-to-live
\* (instants as the whole seconds a NumericDate holds).
C22_MintTimestamps ==
    Created =>
        /\ last.tok.claims.iat = Timegm(mintCall.at)
        /\ last.tok.claims.nbf = last.tok.claims.iat
        /\ last.tok.claims.exp = Timegm(mintCall.at + TtlPassed)

---------------------------------------------------------------------------
(* Properties of the role a request is authorized with, checked under      *)
(* RouteSpec                                                               *)

PassesVerify ==
    /\ Requested
    /\ last.header = "bearer"
    /\ verify_token(last.tok, now, fake_users_db).status = 200

\* the role the repository holds for the active account the token names
StoredRole ==
    IF last.tok.claims.sub \in DOMAIN repo_users
          /\ repo_users[last.tok.claims.sub].is_active
    THEN repo_users[last.tok.claims.sub].role
    ELSE None

\* C23: for a token that passes verify_token, /admin and /user are served
\* according to the role the repository holds for the token's sub, whatever
\* the token's role claim says; a signed token with the role claim admin for
\* a user-role account is never served by /admin.
C23_StoredRoleDecides ==
    PassesVerify =>
        /\ last.op = "get_admin_endpoint" => (last.ran <=> StoredRole = "admin")
        /\ last.op = "get_user_endpoint"
              => (last.ran <=> StoredRole \in {"user", "admin"})
        /\ ( /\ last.op = "get_admin_endpoint"
             /\ last.tok.claims.role = "admin"
             /\ last.tok.claims.sub \in DOMAIN repo_users
             /\ repo_users[last.tok.claims.sub].role = "user" )
              => (~last.ran /\ last.status \in {401, 403}
                    /\ last.stored_id = 0)

C23_Witness ==
    /\ PassesVerify
    /\ last.op = "get_admin_endpoint"
    /\ last.tok.claims.role = "admin"
    /\ last.tok.claims.sub = "usuario"
    /\ StoredRole = "user"
    /\ last.status = 403

C23_WitnessClaimUser ==
    /\ PassesVerify
    /\ last.op = "get_admin_endpoint"
    /\ last.tok.claims.role = "user"
    /\ StoredRole = "admin"
    /\ last.ran

---------------------------------------------------------------------------
(* Properties of the credential stores at issuance, checked under RouteSpec *)

Issued == last.op \in LoginRoutes /\ last.tok # NoToken

ActiveIn(store, u) == u \in DOMAIN store /\ store[u].is_active

\* C24: a login route issues a token for a username only if that user exists
\* and is active both in fake_users_db, which verify_token consults, and in
\* the repository get_current_user consults.
C24_StoresAgreeAtIssuance ==
    Issued =>
        /\ ActiveIn(fake_users_db, last.tok.claims.sub)
        /\ ActiveIn(repo_users, last.tok.claims.sub)

---------------------------------------------------------------------------
(* Properties of the order of the checks of verify_token, checked under    *)
(* Spec                                                                    *)

\* what jwt.decode says of the presented token
DecodeError ==
    jwt_decode(last.tok, secret_key, {algorithm}, "teste-tivit-client",
               "teste-tivit-api", now)

NoSubject == MissingOrEmpty(last.tok.claims.sub)

NoRoleInformation ==
    MissingOrEmpty(last.tok.claims.role)
        \/ MissingOrEmpty(last.tok.claims.role_hash)

\* C25: of the checks a token fails, verify_token reports the first in the
\* order decode failure, missing subject, missing role information, role
\* tampering, user not found or inactive; the later failures keep their own
\* detail and are not wrapped as decode failures.
C25_CheckOrder ==
    Verified =>
        /\ DecodeError # "ok" => last.detail = "Invalid token: " \o DecodeError
        /\ (DecodeError = "ok" /\ NoSubject)
              => last.detail = "Invalid token: missing subject"
        /\ (DecodeError = "ok" /\ ~NoSubject /\ NoRoleInformation)
              => last.detail = "Invalid token: missing role information"
        /\ (DecodeError = "ok" /\ ~NoSubject /\ ~NoRoleInformation
              /\ ~RoleIntact(last.tok.claims))
              => last.detail = "Invalid token: role tampering detected"
        /\ (DecodeError = "ok" /\ ~NoSubject /\ ~NoRoleInformation
              /\ RoleIntact(last.tok.claims)
              /\ ~ActiveInDb(last.tok.claims.sub))
              => last.detail = "User not found or inactive"
        /\ last.status = 200 \/ last.status = 401

\* an expired token whose role_hash does not match its role
C25_Witness ==
    /\ Verified
    /\ SignedBySecret(last.tok)
    /\ last.tok.claims.exp < Timegm(now)
    /\ last.tok.claims.role_hash # Sha256(last.tok.claims.role)
    /\ last.detail = "Invalid token: Signature has expired."

\* a tampered role for a user that is not in the store
C25_WitnessTamperingBeforeLookup ==
    /\ Verified
    /\ DecodeError = "ok"
    /\ ~RoleIntact(last.tok.claims)
    /\ ~ActiveInDb(last.tok.claims.sub)
    /\ last.detail = "Invalid token: role tampering detected"

\* no subject and no role information at once
C25_WitnessSubjectBeforeRole ==
    /\ Verified
    /\ DecodeError = "ok"
    /\ NoSubject
    /\ ~RoleIntact(last.tok.claims)
    /\ last.detail = "Invalid token: missing subject"

---------------------------------------------------------------------------
(* Properties of the user repository, checked under RepoSpec *)

\* the store after the call differs from the store before only at username
OnlyRemoved(before, after, username) ==
    /\ DOMAIN after = DOMAIN before \ {username}
    /\ \A u \in DOMAIN after : after[u] = before[u]

\* C26: create of an existing username and update of an absent one raise and
\* leave the store unchanged; delete returns True exactly when the username
\* existed and removes that entry only; after every operation exists(u)
\* holds exactly when get_by_username(u) returns a user, and every stored
\* user is filed under its own username.
C26_RepositoryOperations ==
    [][ /\ (last'.op = "create" /\ last'.username \in DOMAIN repo_users)
              => (last'.kind = "ValueError" /\ repo_users' = repo_users)
        /\ (last'.op = "create" /\ last'.username \notin DOMAIN repo_users)
              => (last'.kind = "return"
                    /\ last'.username \in DOMAIN repo_users'
                    /\ repo_users'[last'.username] = last'.user)
        /\ (last'.op = "update" /\ last'.username \notin DOMAIN repo_users)
              => (last'.kind = "ValueError" /\ repo_users' = repo_users)
        /\ last'.op = "delete"
              => /\ last'.success <=> last'.username \in DOMAIN repo_users
                 /\ OnlyRemoved(repo_users, repo_users', last'.username)
        /\ \A u \in RepoNames :
              exists(repo_users', u) <=> get_by_username(repo_users', u) # NoUser
        /\ \A u \in DOMAIN repo_users' : repo_users'[u].username = u
      ]_vars

C26_Witness ==
    /\ last.op = "create"
    /\ last.kind = "ValueError"
    /\ last.username = "novo"
    /\ repo_users["novo"] # last.user

C26_WitnessUpdate ==
    last.op = "update" /\ last.kind = "ValueError" /\ last.username = "admin"

C26_WitnessDelete ==
    /\ last.op = "delete"
    /\ last.success
    /\ last.username = "usuario"
    /\ DOMAIN repo_users = {"admin", "novo"}

---------------------------------------------------------------------------
(* Properties of the role checks behind get_current_user, checked under    *)
(* RouteSpec                                                               *)

BearerRequest == Requested /\ last.header = "bearer"

\* the token names an account of the repository that is not active
NamesInactiveAccount ==
    /\ BearerRequest
    /\ last.tok.claims.sub \in DOMAIN repo_users
    /\ ~repo_users[last.tok.claims.sub].is_active

C30_WitnessServed ==
    /\ BearerRequest
    /\ last.op = "get_user_profile"
    /\ last.status = 200
    /\ last.user.role = "user"

====
